---- MODULE Spec2Model ----
(***************************************************************************)
(* Model of the click-hint plugin (kbwo/obsidian-click-hint): the label    *)
(* generator generateUniquePrefixes and the hint session driven by         *)
(* showHints and its keydown handler.                                      *)
(*                                                                         *)
(* Strings are sequences of one-character strings, so that split(''),      *)
(* startsWith, concatenation and toLowerCase are computed, not assumed.    *)
(* Candidates (clickable elements) are the indices 1..n of the list that   *)
(* showHints enumerates.                                                   *)
(***************************************************************************)
EXTENDS Integers, Sequences, FiniteSets, TLC

\* ---- bounds ----
MaxN == 3         \* most clickable elements one showHints call finds
MaxGenN == 5      \* largest n handed to the generator on its own
MaxHandlers == 2  \* most keydown listeners registered on the document
MaxTyped == 2     \* most keydown events recorded after one session start

\* ---- inputs ----
Escape == <<"E", "s", "c", "a", "p", "e">>
Keys == {<<"a">>, <<"b">>, <<"A">>, Escape}
HintCharsValues == {<<"a">>, <<"a", "b">>, <<"A", "b">>}
\* what the settings tab's text field is edited to
EditValues == HintCharsValues \cup {<<>>, <<"a", "a">>}
\* main.ts, and the latest version of it in part_000 (lines 212-431)
Snapshots == {"main.ts", "part_000"}
GenChars == {"a", "b", "c"}
GenAlphabets ==
    {s \in UNION {[1..k -> GenChars] : k \in 1..Cardinality(GenChars)} :
        \A i, j \in DOMAIN s : i # j => s[i] # s[j]}

VARIABLES
    snapshot,      \* which version of the plugin source runs
    hintChars,     \* settings.hintChars, split into characters
    hintMode,      \* this.hintMode
    hintElements,  \* this.hintElements: label -> candidate
    markers,       \* the .click-hint-marker elements, in document order
    handlers,      \* keydown listeners on document, in registration order
    pc,            \* "ready", or "dispatching" inside dispatchElementAction
    pending,       \* the listener that is inside dispatchElementAction
    activations,   \* candidates handed to dispatchElementAction this session
    hints,         \* the labels generated by the last session start
    typed,         \* keys delivered since the last session start
    lastOp,        \* the operation that produced this state
    gen_pc,        \* position inside a stand-alone generateUniquePrefixes call
    gen_n,         \* its argument n
    gen_letters,   \* its letters
    result,        \* its result array
    length,        \* its length counter
    gen_i          \* the outer loop index of the bounded generator

sessionVars == <<snapshot, hintChars, hintMode, hintElements, markers, handlers, pc,
                 pending, activations, hints, typed, lastOp>>
genVars == <<gen_pc, gen_n, gen_letters, result, length, gen_i>>
vars == <<snapshot, hintChars, hintMode, hintElements, markers, handlers, pc,
          pending, activations, hints, typed, lastOp,
          gen_pc, gen_n, gen_letters, result, length, gen_i>>

\* ---- strings ----
startsWith(s, p) == Len(p) <= Len(s) /\ SubSeq(s, 1, Len(p)) = p

toLowerCaseChar(c) ==
    CASE c = "A" -> "a"
      [] c = "B" -> "b"
      [] c = "C" -> "c"
      [] c = "E" -> "e"
      [] OTHER -> c

\* a key that is used as it arrives
toLowerCaseOmitted(s) == s

toLowerCase(s) == [i \in 1..Len(s) |-> toLowerCaseChar(s[i])]

\* ---- generateUniquePrefixes ----
RECURSIVE generateCombinations(_, _, _, _, _)
RECURSIVE forLetters(_, _, _, _, _, _)

\* a for loop that walks the letters from the last to the first
RECURSIVE forLettersReversed(_, _, _, _, _, _)
forLettersReversed(r, prefix, depth, n, letters, i) ==
    IF i > Len(letters) THEN r
    ELSE LET r2 == generateCombinations(
                       r, Append(prefix, letters[Len(letters) + 1 - i]),
                       depth - 1, n, letters)
         IN IF Len(r2) >= n THEN r2
            ELSE forLettersReversed(r2, prefix, depth, n, letters, i + 1)

\* the for loop over letters inside generateCombinations, from index i on
forLetters(r, prefix, depth, n, letters, i) ==
    IF i > Len(letters) THEN r
    ELSE LET r2 == generateCombinations(r, Append(prefix, letters[i]),
                                        depth - 1, n, letters)
         IN IF Len(r2) >= n THEN r2
            ELSE forLetters(r2, prefix, depth, n, letters, i + 1)

\* the closure generateCombinations(prefix, depth), result array made explicit
generateCombinations(r, prefix, depth, n, letters) ==
    IF Len(r) >= n THEN r
    ELSE IF depth = 0 THEN Append(r, prefix)
    ELSE forLetters(r, prefix, depth, n, letters, 1)

\* a while body that never advances the length
whileBodySameLength(r, len, n, letters) ==
    [result |-> generateCombinations(r, <<>>, len, n, letters),
     length |-> len]

\* a while body that stops producing labels beyond two characters
whileBodyCapped(r, len, n, letters) ==
    IF len > 2 THEN [result |-> r, length |-> len]
    ELSE [result |-> generateCombinations(r, <<>>, len, n, letters),
          length |-> len + 1]

\* one iteration of the while loop
whileBody(r, len, n, letters) ==
    [result |-> generateCombinations(r, <<>>, len, n, letters),
     length |-> len + 1]

RECURSIVE whileLoop(_, _, _, _)
whileLoop(r, len, n, letters) ==
    IF Len(r) < n
    THEN LET b == whileBody(r, len, n, letters)
         IN whileLoop(b.result, b.length, n, letters)
    ELSE r

generateThrows(n) == n <= 0

\* the value returned for n >= 1 and non-empty letters
generateUniquePrefixes(n, letters) == whileLoop(<<>>, 1, n, letters)

\* ---- generateUniquePrefixes of main.ts (two-tier, bounded) ----
Letters26 ==
    <<"a", "b", "c", "d", "e", "f", "g", "h", "i", "j", "k", "l", "m",
      "n", "o", "p", "q", "r", "s", "t", "u", "v", "w", "x", "y", "z">>

\* Array.prototype.slice(from, to) for 0 <= from, 0 <= to; each character
\* becomes a one-character label
slice(letters, from, to) ==
    LET hi == IF to < Len(letters) THEN to ELSE Len(letters)
    IN [i \in 1..(IF hi > from THEN hi - from ELSE 0) |-> <<letters[from + i]>>]

maxN == 26 + 25 * 26

\* Math.ceil((n - 26) / 25) for n > 26
prefixCount(n) == (n - 26 + 24) \div 25

boundedThrows(n) == n <= 0 \/ n > maxN \/ (n > 26 /\ prefixCount(n) > 26)

longerStringsNeeded(n) == n - (26 - prefixCount(n))

\* the inner for loop over j, from index j on (1-based)
RECURSIVE innerLoop(_, _, _, _, _)
innerLoop(longer, prefix, letters, needed, j) ==
    IF j > Len(letters) THEN longer
    ELSE LET pushed == Append(longer, prefix \o <<letters[j]>>)
         IN IF Len(pushed) = needed THEN pushed
            ELSE innerLoop(pushed, prefix, letters, needed, j + 1)

\* an outer loop that breaks one label early
outerBodyBreaksEarly(longer, i, letters, n) ==
    innerLoop(longer, slice(letters, 0, prefixCount(n))[i], letters,
              longerStringsNeeded(n) - 1, 1)

\* one iteration of the outer for loop over i (1-based)
outerBody(longer, i, letters, n) ==
    innerLoop(longer, slice(letters, 0, prefixCount(n))[i], letters,
              longerStringsNeeded(n), 1)

\* the outer loop is left after iteration i
outerDone(longer, i, letters, n) ==
    \/ Len(longer) = longerStringsNeeded(n)
    \/ i >= Len(slice(letters, 0, prefixCount(n)))

RECURSIVE outerLoop(_, _, _, _)
outerLoop(longer, i, letters, n) ==
    IF i > Len(slice(letters, 0, prefixCount(n))) THEN longer
    ELSE LET l2 == outerBody(longer, i, letters, n)
         IN IF outerDone(l2, i, letters, n) THEN l2
            ELSE outerLoop(l2, i + 1, letters, n)

singleLetters(letters, n) == slice(letters, prefixCount(n), Len(letters))

\* the value returned when boundedThrows(n) is false
generateUniquePrefixesBounded(n, letters) ==
    IF n <= 26 THEN slice(letters, 0, n)
    ELSE singleLetters(letters, n) \o outerLoop(<<>>, 1, letters, n)

\* ---- session helpers ----
EmptyMap == [hint \in {} |-> 0]
NoPending == [idx |-> 0, target |-> 0]

Op(o, k, n, c) ==
    [op |-> o, key |-> k, n |-> n, container |-> c, arg |-> ""]
OpArg(o, a) == [op |-> o, key |-> <<>>, n |-> 0, container |-> FALSE, arg |-> a]

DEFAULT_SETTINGS == [hintChars |-> Letters26]

\* what loadData() resolves to: nothing stored, {}, an object without
\* hintChars, or an object with hintChars
Blobs ==
    {[kind |-> k, hintChars |-> <<>>] : k \in {"missing", "empty", "partial"}}
        \cup {[kind |-> "full", hintChars |-> v] : v \in EditValues}

\* Object.assign({}, DEFAULT_SETTINGS, blob).hintChars
loadedHintChars(blob) ==
    IF blob.kind = "full" THEN blob.hintChars ELSE DEFAULT_SETTINGS.hintChars

\* the numbers of clickable elements a showHints call may find
BigCounts == {26 + 1, maxN + 1}
SessionCounts ==
    (0..MaxN) \cup (IF snapshot = "main.ts" THEN BigCounts ELSE {})

\* generateUniquePrefixes(n) throws
sessionThrows(n) ==
    IF snapshot = "main.ts" THEN boundedThrows(n) ELSE generateThrows(n)

\* generateUniquePrefixes(n) never returns: its while loop adds nothing
\* when letters is empty
sessionHangs(n) ==
    snapshot = "part_000" /\ ~generateThrows(n) /\ hintChars = <<>>

\* the hints generateUniquePrefixes(n) returns
sessionHints(n) ==
    IF snapshot = "main.ts" THEN generateUniquePrefixesBounded(n, Letters26)
    ELSE generateUniquePrefixes(n, hintChars)

\* if (!containerEl) return;  -- main.ts has no such check
containerMissing(containerEl) == snapshot = "part_000" /\ ~containerEl

\* the markers showHints creates: one per element, text = hints[index]
createMarkers(hs, n) ==
    [i \in 1..n |-> [cand |-> i, text |-> hs[i], matched |-> 0]]

\* this.hintElements[hint] = element, for index 1..n in order
assignHintElements(old, hs, n) ==
    [hint \in (DOMAIN old) \cup {hs[i] : i \in 1..n} |->
        IF \E i \in 1..n : hs[i] = hint
        THEN CHOOSE i \in 1..n :
                 /\ hs[i] = hint
                 /\ \A j \in 1..n : hs[j] = hint => j <= i
        ELSE old[hint]]

\* earlier listeners stop being the current session's listener
notCurrent(hs) == [i \in 1..Len(hs) |-> [hs[i] EXCEPT !.cur = FALSE]]

removeHints(st) ==
    [st EXCEPT !.hintMode = FALSE, !.markers = <<>>, !.hintElements = EmptyMap]

\* the forEach over .click-hint-marker after a partial match
updateMarkers(ms, currentInput) ==
    LET kept == SelectSeq(ms, LAMBDA m : startsWith(m.text, currentInput))
    IN [i \in 1..Len(kept) |-> [kept[i] EXCEPT !.matched = Len(currentInput)]]

\* main.ts: the forEach over .hint-marker only rewrites matching markers
emphasizeMarkers(ms, currentInput) ==
    [i \in 1..Len(ms) |->
        IF startsWith(ms[i].text, currentInput)
        THEN [ms[i] EXCEPT !.matched = Len(currentInput)]
        ELSE ms[i]]

\* the marker update of the running version
markersAfterPartialMatch(ms, currentInput) ==
    IF snapshot = "main.ts" THEN emphasizeMarkers(ms, currentInput)
    ELSE updateMarkers(ms, currentInput)

\* the state a keydown event is processed in, threaded through the
\* listeners; suppressed: preventDefault and stopPropagation were called
EventState ==
    [hintMode |-> hintMode, hintElements |-> hintElements, markers |-> markers,
     handlers |-> <<>>, pending |-> NoPending, suppressed |-> FALSE]

\* a listener that leaves the event alone
suppressOmitted(st) == st

\* evt.preventDefault(); evt.stopPropagation();
suppress(st) == [st EXCEPT !.suppressed = TRUE]

\* a listener that hands the element to dispatchElementAction before it
\* tears the hints down
keydownHandlerDispatchFirst(st, h, key) ==
    IF ~st.hintMode THEN [st EXCEPT !.handlers = Append(@, h)]
    ELSE LET k == toLowerCase(key) IN
      IF k = toLowerCase(Escape) THEN removeHints(suppress(st))
      ELSE
        LET currentInput == h.currentInput \o k
            partialMatch == {hint \in DOMAIN st.hintElements :
                                startsWith(hint, currentInput)}
            h2 == [h EXCEPT !.currentInput = currentInput]
        IN IF partialMatch = {} THEN removeHints(suppress(st))
           ELSE IF currentInput \in partialMatch
           THEN [suppress(st) EXCEPT
                    !.handlers = Append(@, h2),
                    !.pending = [idx |-> Len(st.handlers) + 1,
                                 target |-> st.hintElements[currentInput]]]
           ELSE [suppress(st) EXCEPT !.markers = markersAfterPartialMatch(@, currentInput),
                           !.handlers = Append(@, h2)]

\* a listener that goes on collecting when no label matches
keydownHandlerKeepsCollecting(st, h, key) ==
    IF ~st.hintMode THEN [st EXCEPT !.handlers = Append(@, h)]
    ELSE LET k == toLowerCase(key) IN
      IF k = toLowerCase(Escape) THEN removeHints(suppress(st))
      ELSE
        LET currentInput == h.currentInput \o k
            partialMatch == {hint \in DOMAIN st.hintElements :
                                startsWith(hint, currentInput)}
            h2 == [h EXCEPT !.currentInput = currentInput]
        IN IF currentInput \in partialMatch
           THEN [removeHints(suppress(st)) EXCEPT
                    !.handlers = Append(@, h2),
                    !.pending = [idx |-> Len(st.handlers) + 1,
                                 target |-> st.hintElements[currentInput]]]
           ELSE [suppress(st) EXCEPT !.markers = markersAfterPartialMatch(@, currentInput),
                           !.handlers = Append(@, h2)]

\* one listener h receiving the event; st.handlers collects the listeners
\* that are still registered afterwards
keydownHandler(st, h, key) ==
    IF ~st.hintMode THEN [st EXCEPT !.handlers = Append(@, h)]
    ELSE LET k == toLowerCase(key) IN
      IF k = toLowerCase(Escape) THEN removeHints(suppress(st))
      ELSE
        LET currentInput == h.currentInput \o k
            partialMatch == {hint \in DOMAIN st.hintElements :
                                startsWith(hint, currentInput)}
            h2 == [h EXCEPT !.currentInput = currentInput]
        IN IF partialMatch = {} THEN removeHints(suppress(st))
           ELSE IF currentInput \in partialMatch
           THEN [removeHints(suppress(st)) EXCEPT
                    !.handlers = Append(@, h2),
                    !.pending = [idx |-> Len(st.handlers) + 1,
                                 target |-> st.hintElements[currentInput]]]
           ELSE [suppress(st) EXCEPT !.markers = markersAfterPartialMatch(@, currentInput),
                           !.handlers = Append(@, h2)]

\* the document calls its keydown listeners in registration order
RECURSIVE dispatchEvent(_, _, _)
dispatchEvent(st, hs, key) ==
    IF hs = <<>> THEN st
    ELSE dispatchEvent(keydownHandler(st, Head(hs), key), Tail(hs), key)

\* ---- operations of the session ----
\* a showHints that does not look at hintMode
showHintsNoGuard(mode) == FALSE

\* if (this.hintMode) return;
showHintsGuard(mode) == mode

\* showHints past its guard, for n elements found
StartSession(n, containerEl) ==
    /\ hintMode' = TRUE
    /\ typed' = <<>>
    /\ activations' = <<>>
    /\ IF sessionThrows(n) \/ sessionHangs(n) \/ containerMissing(containerEl)
       THEN /\ hints' = <<>>
            /\ handlers' = notCurrent(handlers)
            /\ pc' = IF ~sessionThrows(n) /\ sessionHangs(n)
                     THEN "hung" ELSE pc
            /\ UNCHANGED <<markers, hintElements>>
       ELSE LET hs == sessionHints(n) IN
            /\ hints' = hs
            /\ markers' = markers \o createMarkers(hs, n)
            /\ hintElements' = assignHintElements(hintElements, hs, n)
            /\ handlers' = Append(notCurrent(handlers),
                                  [currentInput |-> <<>>, cur |-> TRUE])
            /\ pc' = pc

ShowHints(n, containerEl) ==
    /\ pc = "ready"
    /\ n \in SessionCounts
    /\ snapshot = "main.ts" => containerEl
    /\ (/\ ~hintMode
        /\ ~sessionThrows(n)
        /\ ~sessionHangs(n)
        /\ ~containerMissing(containerEl))
           => Len(handlers) < MaxHandlers
    /\ lastOp' = Op("showHints", <<>>, n, containerEl)
    /\ IF showHintsGuard(hintMode)
       THEN UNCHANGED <<hintMode, typed, activations, hints, markers,
                        hintElements, handlers, pc>>
       ELSE StartSession(n, containerEl)
    /\ UNCHANGED <<snapshot, hintChars, pending>>
    /\ UNCHANGED genVars

Keydown(key) ==
    /\ pc = "ready"
    /\ Len(typed) < MaxTyped
    /\ LET st == dispatchEvent(EventState, handlers, key) IN
       /\ hintMode' = st.hintMode
       /\ hintElements' = st.hintElements
       /\ markers' = st.markers
       /\ handlers' = st.handlers
       /\ pending' = st.pending
       /\ pc' = IF st.pending.idx # 0 THEN "dispatching" ELSE "ready"
       /\ activations' = IF st.pending.idx # 0
                         THEN Append(activations, st.pending.target)
                         ELSE activations
    /\ typed' = Append(typed, key)
    /\ lastOp' = [Op("keydown", key, 0, FALSE) EXCEPT
                     !.arg = IF dispatchEvent(EventState, handlers, key).suppressed
                             THEN "suppressed" ELSE "passed"]
    /\ UNCHANGED <<snapshot, hintChars, hints>>
    /\ UNCHANGED genVars

\* dispatchElementAction returns: the listener removes itself
DispatchReturn ==
    /\ pc = "dispatching"
    /\ handlers' = [i \in 1..(Len(handlers) - 1) |->
                       IF i < pending.idx THEN handlers[i] ELSE handlers[i + 1]]
    /\ pc' = "ready"
    /\ pending' = NoPending
    /\ lastOp' = Op("dispatchReturn", <<>>, 0, FALSE)
    /\ UNCHANGED <<snapshot, hintChars, hintMode, hintElements, markers, activations,
                   hints, typed>>
    /\ UNCHANGED genVars

\* dispatchElementAction throws (decodeURI on the link text): the
\* removeEventListener after it is skipped
DispatchThrow ==
    /\ pc = "dispatching"
    /\ pc' = "ready"
    /\ pending' = NoPending
    /\ lastOp' = Op("dispatchThrow", <<>>, 0, FALSE)
    /\ UNCHANGED <<snapshot, hintChars, hintMode, hintElements, markers, handlers,
                   activations, hints, typed>>
    /\ UNCHANGED genVars

\* loadSettings(): settings = Object.assign({}, DEFAULT_SETTINGS, blob);
\* onload is its only caller, so it runs before any other operation
LoadSettings(blob) ==
    /\ pc = "ready"
    /\ lastOp.op \in {"init", "loadSettings"}
    /\ hintChars' = loadedHintChars(blob)
    /\ lastOp' = OpArg("loadSettings", blob.kind)
    /\ UNCHANGED <<snapshot, hintMode, hintElements, markers, handlers, pc,
                   pending, activations, hints, typed>>
    /\ UNCHANGED genVars

\* the settings tab's onChange: settings.hintChars = value, then save
EditHintChars(value) ==
    /\ pc = "ready"
    /\ hintChars' = value
    /\ lastOp' = OpArg("editHintChars", "")
    /\ UNCHANGED <<snapshot, hintMode, hintElements, markers, handlers, pc,
                   pending, activations, hints, typed>>
    /\ UNCHANGED genVars

GenIdle ==
    /\ gen_pc = "off" /\ gen_n = 0 /\ gen_letters = <<>>
    /\ result = <<>> /\ length = 0 /\ gen_i = 0

Init ==
    /\ snapshot \in Snapshots
    /\ hintChars \in HintCharsValues
    /\ hintMode = FALSE
    /\ hintElements = EmptyMap
    /\ markers = <<>>
    /\ handlers = <<>>
    /\ pc = "ready"
    /\ pending = NoPending
    /\ activations = <<>>
    /\ hints = <<>>
    /\ typed = <<>>
    /\ lastOp = Op("init", <<>>, 0, FALSE)
    /\ GenIdle

Next ==
    \/ \E n \in (0..MaxN) \cup BigCounts, containerEl \in BOOLEAN :
           ShowHints(n, containerEl)
    \/ \E blob \in Blobs : LoadSettings(blob)
    \/ \E value \in EditValues : EditHintChars(value)
    \/ \E key \in Keys : Keydown(key)
    \/ DispatchReturn
    \/ DispatchThrow

Spec == Init /\ [][Next]_vars

\* ---- generateUniquePrefixes called on its own, one loop iteration a step ----
GenInit ==
    /\ snapshot = "part_000"
    /\ hintChars = <<"a">>
    /\ hintMode = FALSE
    /\ hintElements = EmptyMap
    /\ markers = <<>>
    /\ handlers = <<>>
    /\ pc = "ready"
    /\ pending = NoPending
    /\ activations = <<>>
    /\ hints = <<>>
    /\ typed = <<>>
    /\ lastOp = Op("init", <<>>, 0, FALSE)
    /\ gen_pc = "call"
    /\ gen_n \in 0..MaxGenN
    /\ gen_letters \in GenAlphabets
    /\ result = <<>>
    /\ length = 0
    /\ gen_i = 0

GenThrow ==
    /\ gen_pc = "call"
    /\ generateThrows(gen_n)
    /\ gen_pc' = "thrown"
    /\ UNCHANGED <<gen_n, gen_letters, result, length, gen_i>>
    /\ UNCHANGED sessionVars

GenEnter ==
    /\ gen_pc = "call"
    /\ ~generateThrows(gen_n)
    /\ gen_pc' = "loop"
    /\ result' = <<>>
    /\ length' = 1
    /\ UNCHANGED <<gen_n, gen_letters, gen_i>>
    /\ UNCHANGED sessionVars

GenLoop ==
    /\ gen_pc = "loop"
    /\ Len(result) < gen_n
    /\ LET b == whileBody(result, length, gen_n, gen_letters) IN
       /\ result' = b.result
       /\ length' = b.length
    /\ UNCHANGED <<gen_pc, gen_n, gen_letters, gen_i>>
    /\ UNCHANGED sessionVars

GenReturn ==
    /\ gen_pc = "loop"
    /\ ~(Len(result) < gen_n)
    /\ gen_pc' = "returned"
    /\ UNCHANGED <<gen_n, gen_letters, result, length, gen_i>>
    /\ UNCHANGED sessionVars

GenNext == GenThrow \/ GenEnter \/ GenLoop \/ GenReturn

GenSpec == GenInit /\ [][GenNext]_vars

\* a call that has started keeps running until it returns or throws
GenLiveSpec == GenInit /\ [][GenNext]_vars /\ WF_vars(GenNext)

\* ---- properties ----
isEscape(key) == toLowerCase(key) = toLowerCase(Escape)
\* the registered listeners without the bookkeeping of which one is current
inputsOf(hs) == [i \in 1..Len(hs) |-> hs[i].currentInput]
currentHandlers(hs) == {i \in 1..Len(hs) : hs[i].cur}
\* a session that showHints started and whose listener is registered
Collecting == hintMode /\ currentHandlers(handlers) # {}
\* a label given as one keydown per character
keysOf(label) == [j \in 1..Len(label) |-> <<label[j]>>]

\* C1: the sequence generateUniquePrefixes returns has no label that is a
\* prefix of a different label of the sequence.
C1_NoPrefix ==
    gen_pc = "returned" =>
        \A i, j \in 1..Len(result) :
            i # j => ~startsWith(result[j], result[i])

\* C2: for n >= 1 and a non-empty alphabet of distinct characters,
\* generateUniquePrefixes(n) returns exactly n strings, pairwise distinct.
C2_ExactlyNDistinct ==
    gen_pc = "returned" =>
        /\ Len(result) = gen_n
        /\ \A i, j \in 1..Len(result) : i # j => result[i] # result[j]

C2_Witness ==
    /\ gen_pc = "returned"
    /\ gen_n > Len(gen_letters)
    /\ Len(result) = gen_n

\* C3: in a session started with N >= 1 candidates, once the characters of
\* candidate i's label have been delivered one keydown at a time from the
\* start of the session, candidate i and no other has been activated, no
\* marker is left and hintMode is false.  (Stated for sessions whose labels
\* are lower-case, where the key's toLowerCase changes nothing, and pairwise
\* distinct.)
C3_TypingLabelActivates ==
    \A i \in 1..Len(hints) :
        (/\ \A j \in 1..Len(hints) :
              /\ toLowerCase(hints[j]) = hints[j]
              /\ j # i => hints[j] # hints[i]
         /\ typed = keysOf(hints[i])) =>
            /\ activations = <<i>>
            /\ markers = <<>>
            /\ ~hintMode

\* C4: whenever a keystroke makes a listener's currentInput equal to an
\* assigned label (full match), that label is the only assigned label that
\* starts with currentInput.
C4_FullMatchIsOnlyMatch ==
    [][pc' = "dispatching" =>
          LET currentInput == handlers'[pending'.idx].currentInput
          IN {hint \in DOMAIN hintElements : startsWith(hint, currentInput)}
                 = {currentInput}]_vars

\* C5: showHints called while hintMode is true changes nothing: markers,
\* hintElements, the running session's input and the registered keydown
\* listeners stay as they are.
C5_ShowHintsWhileCollectingNoOp ==
    [][(hintMode /\ lastOp'.op = "showHints") =>
          UNCHANGED <<hintMode, markers, hintElements, handlers, hints,
                      typed, activations, pc, pending>>]_vars

C5_Witness ==
    /\ lastOp.op = "showHints"
    /\ hintMode
    /\ Len(hints) >= 1
    /\ Len(markers) = Len(hints)
    /\ lastOp.n # Len(hints)
    /\ Len(handlers) = 1

\* C6: in every Collecting state a keydown of Escape ends the session:
\* hintMode false, no marker, hintElements empty, the session's listener
\* unregistered, no candidate activated.
C6_EscapeEndsSession ==
    [][(Collecting /\ lastOp'.op = "keydown" /\ isEscape(lastOp'.key)) =>
          /\ ~hintMode'
          /\ markers' = <<>>
          /\ hintElements' = EmptyMap
          /\ currentHandlers(handlers') = {}
          /\ activations' = activations
          /\ pc' = "ready"]_vars

\* C7: in every Collecting state a keydown other than Escape after which no
\* assigned label starts with the session's extended currentInput ends the
\* session: hintMode false, no marker, the session's listener unregistered,
\* no candidate activated.
C7_NoMatchEndsSession ==
    [][(/\ Collecting
        /\ lastOp'.op = "keydown"
        /\ ~isEscape(lastOp'.key)
        /\ \A i \in currentHandlers(handlers) :
             \A hint \in DOMAIN hintElements :
               ~startsWith(hint, handlers[i].currentInput
                                    \o toLowerCase(lastOp'.key))) =>
          /\ ~hintMode'
          /\ markers' = <<>>
          /\ currentHandlers(handlers') = {}
          /\ activations' = activations
          /\ pc' = "ready"]_vars

\* C8: dispatchElementAction is invoked at most once in a session, only by a
\* keydown that is not Escape and makes a listener's currentInput equal to an
\* assigned label, whose candidate it receives; when it is invoked no marker
\* is left, hintElements is empty and hintMode is false.
C8_DispatchOnceAfterTeardown ==
    [][/\ (activations' # activations /\ activations' # <<>>) =>
             pc' = "dispatching"
       /\ (lastOp'.op = "keydown" /\ isEscape(lastOp'.key)) =>
             (activations' = activations /\ pc' = "ready")
       /\ pc' = "dispatching" =>
          /\ pc = "ready"
          /\ lastOp'.op = "keydown"
          /\ activations = <<>>
          /\ Len(activations') = 1
          /\ \E i \in 1..Len(handlers) :
               LET currentInput == handlers[i].currentInput
                                       \o toLowerCase(lastOp'.key)
               IN /\ currentInput \in DOMAIN hintElements
                  /\ hintElements[currentInput] = activations'[1]
          /\ ~hintMode'
          /\ markers' = <<>>
          /\ hintElements' = EmptyMap]_vars

C8_Witness ==
    /\ pc = "dispatching"
    /\ activations = <<pending.target>>
    /\ ~hintMode
    /\ markers = <<>>

\* C9: showHints called in Idle with zero candidates aborts cleanly: no
\* marker is created, no session state is changed, hintMode is still false.
C9_ZeroCandidatesAbortsCleanly ==
    [][(~hintMode /\ lastOp'.op = "showHints" /\ lastOp'.n = 0) =>
          /\ ~hintMode'
          /\ markers' = markers
          /\ hintElements' = hintElements
          /\ inputsOf(handlers') = inputsOf(handlers)]_vars

\* C10: showHints called in Idle while the marker container is absent is a
\* no-op: no marker, no keydown listener, hintMode false on return.
C10_NoContainerNoOp ==
    [][(/\ ~hintMode
        /\ lastOp'.op = "showHints"
        /\ lastOp'.n >= 1
        /\ ~lastOp'.container) =>
          /\ ~hintMode'
          /\ markers' = markers
          /\ inputsOf(handlers') = inputsOf(handlers)]_vars

\* C11: after a full match whose dispatchElementAction throws, teardown is
\* complete: no marker, hintMode false, hintElements empty and the session's
\* keydown listener, with its captured currentInput, unregistered.
C11_ThrowingDispatchStillTearsDown ==
    lastOp.op = "dispatchThrow" =>
        /\ ~hintMode
        /\ markers = <<>>
        /\ hintElements = EmptyMap
        /\ currentHandlers(handlers) = {}

\* the same letter as a lower-case and as an upper-case key
CasePairs ==
    {[lower |-> <<"a">>, upper |-> <<"A">>],
     [lower |-> <<"b">>, upper |-> <<"B">>],
     [lower |-> <<"c">>, upper |-> <<"C">>]}

\* C12: in every state with hintMode true, a keydown of the upper-case form
\* of a letter and a keydown of its lower-case form lead to the same next
\* state: same inputs, same markers, same termination, same candidate.
C12_CaseInsensitive ==
    (pc = "ready" /\ hintMode) =>
        \A p \in CasePairs :
            dispatchEvent(EventState, handlers, p.upper)
                = dispatchEvent(EventState, handlers, p.lower)

C12_Witness ==
    /\ lastOp.op = "keydown"
    /\ lastOp.key = <<"A">>
    /\ pc = "dispatching"
    /\ activations # <<>>

RECURSIVE pow(_, _)
pow(k, e) == IF e = 0 THEN 1 ELSE k * pow(k, e - 1)

indexIn(letters, c) == CHOOSE i \in 1..Len(letters) : letters[i] = c

\* how many strings over k letters are shorter than len
RECURSIVE shorterStrings(_, _)
shorterStrings(k, len) ==
    IF len <= 1 THEN 0 ELSE pow(k, len - 1) + shorterStrings(k, len - 1)

\* how many strings of the length of s come before s in alphabet order
RECURSIVE earlierOfSameLength(_, _, _)
earlierOfSameLength(s, letters, j) ==
    IF j > Len(s) THEN 0
    ELSE (indexIn(letters, s[j]) - 1) * pow(Len(letters), Len(s) - j)
            + earlierOfSameLength(s, letters, j + 1)

\* the position of s among all non-empty strings over letters, by
\* increasing length and, within a length, in alphabet order
shortlexRank(s, letters) ==
    shorterStrings(Len(letters), Len(s)) + earlierOfSameLength(s, letters, 1) + 1

\* C13: generateUniquePrefixes(n) returns the first n strings over the
\* alphabet by increasing length and, within a length, in alphabet order;
\* the first min(n, k) labels are the single characters in order.
C13_ShortlexOrder ==
    gen_pc = "returned" =>
        /\ \A i \in 1..Len(result) :
             /\ Len(result[i]) >= 1
             /\ \A j \in 1..Len(result[i]) :
                  \E m \in 1..Len(gen_letters) : gen_letters[m] = result[i][j]
             /\ shortlexRank(result[i], gen_letters) = i
        /\ \A i \in 1..Len(result) :
             i <= Len(gen_letters) => result[i] = <<gen_letters[i]>>

C13_Witness ==
    /\ gen_pc = "returned"
    /\ Len(gen_letters) >= 2
    /\ gen_n > Len(gen_letters) + 1
    /\ Len(result) = gen_n

\* C14: for n >= 1 and a non-empty alphabet a call of generateUniquePrefixes
\* terminates and returns; it never fails for lack of capacity.
C14_GeneratorReturns ==
    (gen_pc = "call" /\ gen_n >= 1) ~> (gen_pc = "returned")

C14_Witness ==
    /\ gen_pc = "returned"
    /\ Len(result) = gen_n
    /\ Len(result[Len(result)]) >= 3

\* ---- the bounded generateUniquePrefixes called on its own ----
MaxBoundedN == 678

BGenInit ==
    /\ snapshot = "main.ts"
    /\ hintChars = <<"a">>
    /\ hintMode = FALSE
    /\ hintElements = EmptyMap
    /\ markers = <<>>
    /\ handlers = <<>>
    /\ pc = "ready"
    /\ pending = NoPending
    /\ activations = <<>>
    /\ hints = <<>>
    /\ typed = <<>>
    /\ lastOp = Op("init", <<>>, 0, FALSE)
    /\ gen_pc = "call"
    /\ gen_n \in 0..MaxBoundedN
    /\ gen_letters = Letters26
    /\ result = <<>>
    /\ length = 0
    /\ gen_i = 0

BGenThrow ==
    /\ gen_pc = "call"
    /\ boundedThrows(gen_n)
    /\ gen_pc' = "thrown"
    /\ UNCHANGED <<gen_n, gen_letters, result, length, gen_i>>
    /\ UNCHANGED sessionVars

\* n <= 26: return letters.slice(0, n)
BGenSlice ==
    /\ gen_pc = "call"
    /\ ~boundedThrows(gen_n)
    /\ gen_n <= 26
    /\ result' = slice(gen_letters, 0, gen_n)
    /\ gen_pc' = "returned"
    /\ UNCHANGED <<gen_n, gen_letters, length, gen_i>>
    /\ UNCHANGED sessionVars

BGenEnter ==
    /\ gen_pc = "call"
    /\ ~boundedThrows(gen_n)
    /\ gen_n > 26
    /\ result' = <<>>
    /\ gen_i' = 1
    /\ gen_pc' = "loop"
    /\ UNCHANGED <<gen_n, gen_letters, length>>
    /\ UNCHANGED sessionVars

\* one iteration of the outer loop; result holds longerStrings
BGenOuter ==
    /\ gen_pc = "loop"
    /\ gen_i <= Len(slice(gen_letters, 0, prefixCount(gen_n)))
    /\ LET l2 == outerBody(result, gen_i, gen_letters, gen_n) IN
       /\ result' = l2
       /\ gen_pc' = IF outerDone(l2, gen_i, gen_letters, gen_n)
                    THEN "concat" ELSE "loop"
    /\ gen_i' = gen_i + 1
    /\ UNCHANGED <<gen_n, gen_letters, length>>
    /\ UNCHANGED sessionVars

\* return singleLetters.concat(longerStrings)
BGenReturn ==
    /\ gen_pc = "concat"
    /\ result' = singleLetters(gen_letters, gen_n) \o result
    /\ gen_pc' = "returned"
    /\ UNCHANGED <<gen_n, gen_letters, length, gen_i>>
    /\ UNCHANGED sessionVars

BGenNext == BGenThrow \/ BGenSlice \/ BGenEnter \/ BGenOuter \/ BGenReturn

BGenSpec == BGenInit /\ [][BGenNext]_vars

\* C20: over the 26 letters the bounded generateUniquePrefixes returns, for
\* 1 <= n <= 676, exactly n pairwise distinct labels of one or two
\* characters, none a prefix of another (with these lengths: no
\* one-character label is the first character of a two-character label),
\* and it throws for every n > 676.
C20_BoundedGenerator ==
    /\ (gen_pc = "thrown") => (gen_n <= 0 \/ gen_n > 676)
    /\ (gen_pc # "call" /\ gen_n > 676) => gen_pc = "thrown"
    /\ (gen_pc = "returned") =>
         LET labels == {result[i] : i \in 1..Len(result)} IN
         /\ gen_n >= 1 /\ gen_n <= 676
         /\ Len(result) = gen_n
         /\ Cardinality(labels) = gen_n
         /\ \A i \in 1..Len(result) :
              /\ Len(result[i]) \in {1, 2}
              /\ \A j \in 1..Len(result) :
                   i # j => ~startsWith(result[j], result[i])

C20_Witness ==
    /\ gen_pc = "returned"
    /\ gen_n = 676
    /\ Len(result) = 676
    /\ \A i \in 1..Len(result) : Len(result[i]) = 2

\* an alphabet as the label generator needs it
validAlphabet(letters) ==
    /\ Len(letters) >= 1
    /\ \A i, j \in 1..Len(letters) : i # j => letters[i] # letters[j]

\* C15: after loadSettings (missing, empty or partial blob) and any edits of
\* the hint characters, the alphabet generateUniquePrefixes reads from
\* settings.hintChars at a session start has at least one character, all
\* distinct; a missing or empty blob yields the 26-letter default.
C15_AlphabetValidAtSessionStart ==
    [][/\ (snapshot = "part_000" /\ ~hintMode /\ lastOp'.op = "showHints")
            => validAlphabet(hintChars)
       /\ (lastOp'.op = "loadSettings" /\ lastOp'.arg \in {"missing", "empty"})
            => hintChars' = Letters26]_vars

\* the currentInput of the running session's listener
sessionInput(hs) == hs[CHOOSE i \in currentHandlers(hs) : TRUE].currentInput

\* C16: after a keystroke that leaves the session Collecting, the markers on
\* screen are exactly the markers whose label starts with currentInput:
\* eliminated markers are gone, and every remaining marker carries its full
\* label with the first |currentInput| characters shown as matched.
C16_PartialMatchNarrowsMarkers ==
    [][(/\ lastOp'.op = "keydown"
        /\ Collecting
        /\ hintMode'
        /\ currentHandlers(handlers') # {}) =>
          LET currentInput == sessionInput(handlers') IN
          /\ \A i \in 1..Len(markers') :
               /\ startsWith(markers'[i].text, currentInput)
               /\ markers'[i].matched = Len(currentInput)
               /\ markers'[i].text = hints[markers'[i].cand]
          /\ \A i \in 1..Len(hints) :
               startsWith(hints[i], currentInput) =>
                   \E j \in 1..Len(markers') : markers'[j].cand = i]_vars

\* C17: after a successful showHints with N candidates hintElements has
\* exactly N keys, exactly N markers exist, and for every i the i-th
\* generated label is the text of candidate i's marker and maps to
\* candidate i.
C17_AssignmentOneToOne ==
    [][(/\ lastOp'.op = "showHints"
        /\ ~hintMode
        /\ currentHandlers(handlers') # {}) =>
          /\ Len(hints') = lastOp'.n
          /\ Cardinality(DOMAIN hintElements') = lastOp'.n
          /\ Len(markers') = lastOp'.n
          /\ \A i \in 1..lastOp'.n :
               /\ markers'[i].cand = i
               /\ markers'[i].text = hints'[i]
               /\ hintElements'[hints'[i]] = i]_vars

\* C18: between events, hintMode is true if and only if exactly one keydown
\* listener is registered, and when hintMode is false no marker exists and
\* hintElements is empty.
C18_ModeMatchesListener ==
    pc = "ready" =>
        /\ hintMode <=> (Len(handlers) = 1)
        /\ ~hintMode => (markers = <<>> /\ hintElements = EmptyMap)

RECURSIVE maxLabelLength(_)
maxLabelLength(hs) ==
    IF hs = <<>> THEN 0
    ELSE LET rest == maxLabelLength(Tail(hs))
         IN IF Len(Head(hs)) > rest THEN Len(Head(hs)) ELSE rest

\* C19: while a session that assigned labels is Collecting, its currentInput
\* is a proper prefix of at least one assigned label; so after as many
\* keydown events as the longest label has characters the session is over.
C19_InputIsProperPrefix ==
    (pc = "ready" /\ hintMode /\ hints # <<>>) =>
        /\ currentHandlers(handlers) # {}
        /\ \E hint \in DOMAIN hintElements :
             /\ startsWith(hint, sessionInput(handlers))
             /\ hint # sessionInput(handlers)
        /\ Len(typed) = Len(sessionInput(handlers))
        /\ Len(typed) < maxLabelLength(hints)

C19_Witness ==
    /\ pc = "ready"
    /\ hintMode
    /\ Len(typed) = 1
    /\ currentHandlers(handlers) # {}
    /\ sessionInput(handlers) = <<"a">>
    /\ maxLabelLength(hints) = 2

\* C21: a keydown that reaches the session's listener while hintMode is true
\* has its default handling and propagation suppressed, the keystroke that
\* ends the session included; a keydown while hintMode is false is not
\* suppressed and changes nothing.
C21_SuppressedWhileCollecting ==
    [][lastOp'.op = "keydown" =>
          /\ Collecting => lastOp'.arg = "suppressed"
          /\ ~hintMode =>
               /\ lastOp'.arg = "passed"
               /\ UNCHANGED <<hintMode, hintElements, markers, handlers, pc,
                              pending, activations, hints, hintChars>>]_vars

C21_Witness ==
    /\ lastOp.op = "keydown"
    /\ lastOp.arg = "suppressed"
    /\ ~hintMode
    /\ pc = "ready"
    /\ hints # <<>>
    /\ handlers = <<>>

\* C22: in main.ts every label produced at a session start is a non-empty
\* string whose characters all belong to the configured settings.hintChars.
C22_LabelsOverConfiguredAlphabet ==
    [][(snapshot = "main.ts" /\ ~hintMode /\ lastOp'.op = "showHints") =>
          \A i \in 1..Len(hints') :
              /\ hints'[i] # <<>>
              /\ \A j \in 1..Len(hints'[i]) :
                   \E m \in 1..Len(hintChars) : hintChars[m] = hints'[i][j]]_vars

\* ---- the bounded generator reading settings.hintChars, on its own ----
MaxCfgN == 28

BGenCfgInit ==
    /\ snapshot = "part_000"
    /\ hintChars = <<"a">>
    /\ hintMode = FALSE
    /\ hintElements = EmptyMap
    /\ markers = <<>>
    /\ handlers = <<>>
    /\ pc = "ready"
    /\ pending = NoPending
    /\ activations = <<>>
    /\ hints = <<>>
    /\ typed = <<>>
    /\ lastOp = Op("init", <<>>, 0, FALSE)
    /\ gen_pc = "call"
    /\ gen_n \in 0..MaxCfgN
    /\ gen_letters \in GenAlphabets \cup {Letters26}
    /\ result = <<>>
    /\ length = 0
    /\ gen_i = 0

BGenCfgSpec == BGenCfgInit /\ [][BGenNext]_vars

\* C23: the bounded generateUniquePrefixes that reads the configured
\* alphabet returns, for every non-empty alphabet of distinct characters of
\* any size and every n in 1..676, exactly n pairwise distinct labels.
C23_BoundedOverAnyAlphabet ==
    (gen_pc = "returned" /\ gen_n >= 1 /\ gen_n <= 676) =>
        /\ Len(result) = gen_n
        /\ \A i, j \in 1..Len(result) : i # j => result[i] # result[j]
====
